---------------------------- MODULE Spec2Model ----------------------------
(***************************************************************************)
(* A model of the query_videos tool of the Video Query MCP server          *)
(* (src/src/video_query_mcp/server.py).  Each invocation of the tool is a  *)
(* process that reads the session configuration, opens its own HTTP        *)
(* client, sends one POST, maps the response to a result string and leaves *)
(* the client's scope.  Strings whose characters matter (identifiers and   *)
(* expiry timestamps) are sequences of one-character strings; an f-string  *)
(* result is a record holding its fixed prefix and the values of its       *)
(* holes.                                                                  *)
(***************************************************************************)
EXTENDS Integers, Sequences, FiniteSets, TLC

(***************************************************************************)
(* Program constants.                                                      *)
(***************************************************************************)
DefaultMaxResults == 10
TopKLimit == 15
ClipLimit == 15
IdDisplayLen == 8
ExpiresDisplayLen == 19
TimeoutSeconds == 30
StatusOk == 200

(***************************************************************************)
(* Bounds of the model.                                                    *)
(***************************************************************************)
\* The longest clips list the remote service returns.
MaxClips == 17
\* How far below 1 and above TopKLimit the max_results argument ranges.
MaxExcess == 1
\* The longest identifier is IdDisplayLen + MaxIdExcess characters.
MaxIdExcess == 2

Min(a, b) == IF a <= b THEN a ELSE b

\* Python's s[:n] for n >= 0.
Take(s, n) == SubSeq(s, 1, Min(n, Len(s)))

\* Python's `c in s` for a one-character c.
Contains(s, c) == \E k \in 1..Len(s) : s[k] = c

(***************************************************************************)
(* Inputs: the invocations, their arguments and session configurations.    *)
(***************************************************************************)
Invocations == {"inv1", "inv2"}

MaxResultsArgs ==
    {0 - MaxExcess, 0, 1, DefaultMaxResults, TopKLimit, TopKLimit + MaxExcess}

\* The context the host hands to the tool: its session_config attribute may
\* be unavailable, or carry an empty or a non-empty user_id.
\* The calls the host makes: every max_results with one query, and the
\* default max_results with another.
Calls ==
    {[query |-> "red car", max_results |-> m] : m \in MaxResultsArgs}
    \cup {[query |-> "meeting room", max_results |-> DefaultMaxResults]}

Contexts ==
    { [has_config |-> FALSE, user_id |-> ""],
      [has_config |-> TRUE, user_id |-> ""],
      [has_config |-> TRUE, user_id |-> "user-1"] }

Url == "https://jzflint--video-processing-api-fastapi-app.modal.run/retrieve-clips-with-descriptions"

(***************************************************************************)
(* Clip records of the remote service.                                     *)
(***************************************************************************)
Alphabet == <<"a", "b", "c", "d", "e", "f", "0", "1", "2", "3", "4">>

\* An identifier of n characters, the k-th of its family.
MakeId(k, n) == [j \in 1..n |-> Alphabet[((j + k) % Len(Alphabet)) + 1]]

ExpiresIso ==
    <<"2", "0", "2", "5", "-", "0", "1", "-", "0", "2", "T", "0", "3", ":",
      "0", "4", ":", "0", "5", ".", "6", "7", "8", "9", "0", "1">>

ExpiresPlain ==
    <<"2", "0", "2", "5", "-", "0", "1", "-", "0", "2", " ", "0", "3", ":",
      "0", "4", ":", "0", "5", "+", "0", "0", ":", "0", "0">>

ExpiresShortIso == <<"1", "2", "T", "3", "4">>

\* Scores in ten-thousandths (8423 is 0.8423), not in descending order.
GoodClips ==
    << [chunk_id |-> MakeId(0, IdDisplayLen + MaxIdExcess),
        video_id |-> MakeId(3, IdDisplayLen),
        description |-> "a red car parks", url |-> "https://cdn/1.mp4",
        expires_at |-> ExpiresIso, score |-> 5121],
       [chunk_id |-> MakeId(1, IdDisplayLen - 1),
        video_id |-> MakeId(4, IdDisplayLen + 1),
        description |-> "people in a meeting room", url |-> "https://cdn/2.mp4",
        expires_at |-> ExpiresPlain, score |-> 8423],
       [chunk_id |-> MakeId(2, IdDisplayLen),
        video_id |-> MakeId(5, 1),
        description |-> "a dog runs", url |-> "https://cdn/3.mp4",
        expires_at |-> ExpiresShortIso, score |-> 8427],
       [chunk_id |-> MakeId(6, 0),
        video_id |-> MakeId(7, IdDisplayLen - 1),
        description |-> "", url |-> "https://cdn/4.mp4",
        expires_at |-> ExpiresIso, score |-> 0] >>

ClipFields == {"chunk_id", "video_id", "description", "url", "expires_at",
               "score"}

\* The clip c without the fields of the set gone.
Without(c, gone) == [f \in (DOMAIN c) \ gone |-> c[f]]

\* A list of n well-formed clips, starting at the k-th good clip.
GoodList(n, k) == [j \in 1..n |-> GoodClips[((j + k) % Len(GoodClips)) + 1]]

\* GoodList(n, 0) with the fields of gone missing from the p-th clip.
BadList(n, p, gone) ==
    [j \in 1..n |-> IF j = p THEN Without(GoodList(n, 0)[j], gone)
                             ELSE GoodList(n, 0)[j]]

ClipCounts == {0, 1, ClipLimit, ClipLimit + 1, MaxClips}

WellFormed(c) == ClipFields \subseteq DOMAIN c

(***************************************************************************)
(* What the awaited POST can produce: an exception of the HTTP library or  *)
(* a response with a status code and a body.                               *)
(***************************************************************************)
RequestErrors ==
    { [type |-> "ConnectError", text |-> "All connection attempts failed"],
      [type |-> "ReadTimeout", text |-> ""] }

\* Bodies that are not JSON, and JSON bodies with the value they encode.
TextBody(t) == [is_json |-> FALSE, text |-> t]
JsonBody(v) == [is_json |-> TRUE, value |-> v]
JsonArray == [type |-> "array"]
JsonObject(members) == [type |-> "object", members |-> members]
ClipsBody(clips) == JsonBody(JsonObject([clips |-> clips]))

ErrorResponses ==
    {[status |-> 201, body |-> ClipsBody(GoodList(2, 0))],
     [status |-> 204, body |-> TextBody("")],
     [status |-> 503, body |-> TextBody("service unavailable")],
     [status |-> 503, body |-> ClipsBody(GoodList(1, 0))]}

OkBodies ==
    {TextBody("<html>"), JsonBody(JsonArray),
     JsonBody(JsonObject([detail |-> "no clips member"]))}
    \cup {ClipsBody(GoodList(n, 1)) : n \in ClipCounts}
    \cup {ClipsBody(BadList(2, 1, {f})) : f \in ClipFields}
    \cup {ClipsBody(BadList(2, 2, {"url", "description"})),
          ClipsBody(BadList(MaxClips, ClipLimit, {"video_id"})),
          ClipsBody(BadList(MaxClips, ClipLimit + 1, {"chunk_id"}))}

Responses ==
    ErrorResponses \cup {[status |-> StatusOk, body |-> b] : b \in OkBodies}

(***************************************************************************)
(* The result strings of query_videos.                                     *)
(***************************************************************************)
NoResult == [prefix |-> ""]

ConfigError == [prefix |-> "Error: User ID is required in configuration"]

StatusError(status, body) ==
    [prefix |-> "Error querying videos: ", status |-> status, body |-> body]

NoClipsFound(query) ==
    [prefix |-> "No video clips found for query: ", query |-> query,
     causes |-> "This could mean:"]

CatchAll(e) ==
    [prefix |-> "Error searching videos: ", exception |-> e.text,
     checklist |-> "Please ensure:"]

Ellipsis == <<".", ".", ".">>

\* f"{x[:8]}..."
DisplayId(id) == Take(id, IdDisplayLen) \o Ellipsis

\* clip['expires_at'][:19] if 'T' in clip['expires_at'] else clip['expires_at']
DisplayExpires(e) == IF Contains(e, "T") THEN Take(e, ExpiresDisplayLen) ELSE e

\* f"{score:.3f}": ten-thousandths rounded to thousandths.
FormatScore(s) == (s + 5) \div 10

FormatClip(i, clip) ==
    [rank |-> i,
     score |-> FormatScore(clip.score),
     description |-> clip.description,
     url |-> clip.url,
     expires |-> DisplayExpires(clip.expires_at),
     video_id |-> DisplayId(clip.video_id),
     chunk_id |-> DisplayId(clip.chunk_id)]

\* A loop over every clip received.
ShownAll(clips) == clips

\* The clips the loop walks: clips[:15].
Shown(clips) == Take(clips, ClipLimit)

\* The count the summary header states.
HeaderCount(clips) == Len(clips)

Found(query, clips, results) ==
    [prefix |-> "Found ", count |-> HeaderCount(clips), query |-> query,
     blocks |-> results, tips |-> "Usage Tips:"]

(***************************************************************************)
(* Exceptions raised while mapping a response.                             *)
(***************************************************************************)
JSONDecodeError ==
    [type |-> "JSONDecodeError",
     text |-> "Expecting value: line 1 column 1 (char 0)"]

AttributeError(what) == [type |-> "AttributeError", text |-> what]

\* str(KeyError(f)) is the quoted field name.
KeyError(f) == [type |-> "KeyError", text |-> "'" \o f \o "'"]

\* The order in which the loop body reads the fields of a clip.
FieldAccessOrder ==
    <<"chunk_id", "description", "expires_at", "score", "url", "video_id">>

\* The first field the loop body reads that the clip lacks.
FirstMissing(clip) ==
    LET k == CHOOSE k \in 1..Len(FieldAccessOrder) :
                 /\ FieldAccessOrder[k] \notin DOMAIN clip
                 /\ \A j \in 1..(k - 1) : FieldAccessOrder[j] \in DOMAIN clip
    IN  FieldAccessOrder[k]

Return(v, parsed, formatted) ==
    [kind |-> "return", value |-> v, parsed |-> parsed, formatted |-> formatted]

Raise(e, parsed, formatted) ==
    [kind |-> "raise", exc |-> e, parsed |-> parsed, formatted |-> formatted]

NoOutcome == [kind |-> "none"]

\* Any 2xx status taken as success.
IsSuccess(status) == status \in 200..299

\* response.status_code != 200
IsOk(status) == status = StatusOk

\* The loop over clips[:15]: it builds a block per clip and raises KeyError
\* at the first clip that lacks a field.
FormatResults(query, clips) ==
    LET shown == Shown(clips)
        bad == {j \in 1..Len(shown) : ~WellFormed(shown[j])}
    IN  IF bad # {}
        THEN LET p == CHOOSE j \in bad : \A k \in bad : j <= k
             IN  Raise(KeyError(FirstMissing(shown[p])), TRUE, p - 1)
        ELSE Return(Found(query, clips,
                          [j \in 1..Len(shown) |-> FormatClip(j, shown[j])]),
                    TRUE, Len(shown))

\* Lines 50-89: from the response to the value returned or the exception
\* raised, with whether response.json() was called and how many clips were
\* formatted.
MapResponse(query, response) ==
    IF ~IsOk(response.status)
    THEN Return(StatusError(response.status, response.body), FALSE, 0)
    ELSE IF ~response.body.is_json
    THEN Raise(JSONDecodeError, TRUE, 0)
    ELSE LET data == response.body.value
         IN  IF data.type # "object"
             THEN Raise(AttributeError("'list' object has no attribute 'get'"),
                        TRUE, 0)
             ELSE LET clips == IF "clips" \in DOMAIN data.members
                               THEN data.members.clips ELSE <<>>
                  IN  IF clips = <<>>
                      THEN Return(NoClipsFound(query), TRUE, 0)
                      ELSE FormatResults(query, clips)

(***************************************************************************)
(* The state: per invocation its position, its arguments and context, the  *)
(* client it holds, the response it received, the outcome of the body of   *)
(* the try block and the string returned; and the HTTP clients ever        *)
(* created, each with its owner, whether it is open and the requests sent  *)
(* through it.                                                             *)
(***************************************************************************)
VARIABLES pc, args, ctx, client, response, pending, result, clients

vars == <<pc, args, ctx, client, response, pending, result, clients>>

NoArgs == [query |-> "", max_results |-> DefaultMaxResults]
NoContext == [has_config |-> FALSE, user_id |-> ""]
NoResponse == [status |-> 0, body |-> TextBody("")]

Init ==
    /\ pc = [i \in Invocations |-> "idle"]
    /\ args = [i \in Invocations |-> NoArgs]
    /\ ctx = [i \in Invocations |-> NoContext]
    /\ client = [i \in Invocations |-> 0]
    /\ response = [i \in Invocations |-> NoResponse]
    /\ pending = [i \in Invocations |-> NoOutcome]
    /\ result = [i \in Invocations |-> NoResult]
    /\ clients = <<>>

\* A check that only a literal "None" user id fails.
UserIdIsNone(config) == config.user_id = "None"

\* if not session_config.user_id
UserIdMissing(config) == config.user_id = ""

\* max_results sent as it came.
TopKUnclamped(max_results) == max_results

\* max where min was meant.
TopKMax(max_results) == IF max_results >= TopKLimit THEN max_results ELSE TopKLimit

\* "top_k": min(max_results, 15)
TopK(max_results) == Min(max_results, TopKLimit)

\* The JSON body of the request.
RequestBody(config, a) ==
    [user_id |-> config.user_id, query |-> a.query,
     top_k |-> TopK(a.max_results)]

\* An except clause that catches the HTTP library's errors only.
CatchHttpOnly(e) ==
    IF e \in RequestErrors
    THEN [pc |-> "done", result |-> CatchAll(e)]
    ELSE [pc |-> "raised", result |-> NoResult]

\* except Exception as e: return f"Error searching videos: {str(e)}..."
Catch(e) == [pc |-> "done", result |-> CatchAll(e)]

\* httpx.AsyncClient(timeout=30.0): a new client, owned by its creator.
NewClient(i) ==
    Append(clients, [owner |-> i, open |-> TRUE, timeout |-> TimeoutSeconds,
                     requests |-> <<>>])

\* The client of the async with statement, once entered.
EnteredClient(i) == Len(NewClient(i))

\* The host calls the tool.
Invoke(i, c, a) ==
    /\ pc[i] = "idle"
    /\ ctx' = [ctx EXCEPT ![i] = c]
    /\ args' = [args EXCEPT ![i] = a]
    /\ pc' = [pc EXCEPT ![i] = "config"]
    /\ UNCHANGED <<client, response, pending, result, clients>>

\* Lines 34-37: read the session configuration and check the user id.
ReadConfig(i) ==
    /\ pc[i] = "config"
    /\ IF ~ctx[i].has_config
       THEN LET e == AttributeError("'Context' object has no attribute 'session_config'")
            IN  /\ pending' = [pending EXCEPT ![i] = Raise(e, FALSE, 0)]
                /\ pc' = [pc EXCEPT ![i] = Catch(e).pc]
                /\ result' = [result EXCEPT ![i] = Catch(e).result]
       ELSE IF UserIdMissing(ctx[i])
       THEN /\ pending' = [pending EXCEPT ![i] = Return(ConfigError, FALSE, 0)]
            /\ pc' = [pc EXCEPT ![i] = "done"]
            /\ result' = [result EXCEPT ![i] = ConfigError]
       ELSE /\ pc' = [pc EXCEPT ![i] = "open"]
            /\ UNCHANGED <<pending, result>>
    /\ UNCHANGED <<args, ctx, client, response, clients>>

\* Line 40: enter the async with statement.
OpenClient(i) ==
    /\ pc[i] = "open"
    /\ clients' = NewClient(i)
    /\ client' = [client EXCEPT ![i] = EnteredClient(i)]
    /\ pc' = [pc EXCEPT ![i] = "post"]
    /\ UNCHANGED <<args, ctx, response, pending, result>>

\* Lines 41-48: send the POST and suspend until it completes.
SendPost(i) ==
    /\ pc[i] = "post"
    /\ clients' = [clients EXCEPT ![client[i]].requests =
                       Append(@, [from |-> i, method |-> "POST", url |-> Url,
                                  was_open |-> clients[client[i]].open,
                                  json |-> RequestBody(ctx[i], args[i])])]
    /\ pc' = [pc EXCEPT ![i] = "await"]
    /\ UNCHANGED <<args, ctx, client, response, pending, result>>

\* A failed POST that is sent again.
PostFailsRetry(i, e) ==
    /\ pc[i] = "await"
    /\ pc' = [pc EXCEPT ![i] = "post"]
    /\ UNCHANGED <<args, ctx, client, response, pending, result, clients>>

\* The POST raises: a network error or the 30 second timeout.
PostFails(i, e) ==
    /\ pc[i] = "await"
    /\ pending' = [pending EXCEPT ![i] = Raise(e, FALSE, 0)]
    /\ pc' = [pc EXCEPT ![i] = "exit"]
    /\ UNCHANGED <<args, ctx, client, response, result, clients>>

\* The POST returns a response; lines 50-89 run up to the return or raise.
PostCompletes(i, r) ==
    /\ pc[i] = "await"
    /\ response' = [response EXCEPT ![i] = r]
    /\ pending' = [pending EXCEPT ![i] = MapResponse(args[i].query, r)]
    /\ pc' = [pc EXCEPT ![i] = "exit"]
    /\ UNCHANGED <<args, ctx, client, result, clients>>

\* A client closed on the return paths only.
ExitClientLeak(i) ==
    /\ pc[i] = "exit"
    /\ clients' = [clients EXCEPT ![client[i]].open = (pending[i].kind # "return")]
    /\ IF pending[i].kind = "return"
       THEN /\ pc' = [pc EXCEPT ![i] = "done"]
            /\ result' = [result EXCEPT ![i] = pending[i].value]
       ELSE /\ pc' = [pc EXCEPT ![i] = "done"]
            /\ result' = [result EXCEPT ![i] = CatchAll(pending[i].exc)]
    /\ UNCHANGED <<args, ctx, client, response, pending>>

\* Leaving the async with statement closes the client, on a return and on
\* an exception alike; an exception then reaches the except clause.
ExitClient(i) ==
    /\ pc[i] = "exit"
    /\ clients' = [clients EXCEPT ![client[i]].open = FALSE]
    /\ IF pending[i].kind = "return"
       THEN /\ pc' = [pc EXCEPT ![i] = "done"]
            /\ result' = [result EXCEPT ![i] = pending[i].value]
       ELSE /\ pc' = [pc EXCEPT ![i] = Catch(pending[i].exc).pc]
            /\ result' = [result EXCEPT ![i] = Catch(pending[i].exc).result]
    /\ UNCHANGED <<args, ctx, client, response, pending>>

Next ==
    \/ \E i \in Invocations, c \in Contexts, a \in Calls : Invoke(i, c, a)
    \/ \E i \in Invocations : ReadConfig(i)
    \/ \E i \in Invocations : OpenClient(i)
    \/ \E i \in Invocations : SendPost(i)
    \/ \E i \in Invocations, e \in RequestErrors : PostFails(i, e)
    \/ \E i \in Invocations, r \in Responses : PostCompletes(i, r)
    \/ \E i \in Invocations : ExitClient(i)

Spec == Init /\ [][Next]_vars

(***************************************************************************)
(* Notions the properties share.                                           *)
(***************************************************************************)
Terminal(i) == pc[i] \in {"done", "raised"}

\* The requests invocation i has sent, as <<client, position>> pairs.
PostsOf(i) ==
    {ck \in UNION {{<<c, k>> : k \in 1..Len(clients[c].requests)} :
                       c \in 1..Len(clients)} :
        clients[ck[1]].requests[ck[2]].from = i}

PostsBy(i) == Cardinality(PostsOf(i))

AllRequests ==
    UNION {{clients[c].requests[k] : k \in 1..Len(clients[c].requests)} :
               c \in 1..Len(clients)}

\* Invocation i got past the user-id check.
PassedPrecondition(i) ==
    /\ pc[i] \notin {"idle", "config"}
    /\ ctx[i].has_config
    /\ ctx[i].user_id # ""

GotResponse(i) == response[i] # NoResponse

\* Invocation i received a 200 response whose body is a JSON object with a
\* list of clips.
GotClips(i) ==
    /\ GotResponse(i)
    /\ response[i].status = 200
    /\ response[i].body.is_json
    /\ response[i].body.value.type = "object"
    /\ "clips" \in DOMAIN response[i].body.value.members

ClipsOf(i) == response[i].body.value.members.clips

AllWellFormed(clips) == \A j \in 1..Len(clips) : ClipFields \subseteq DOMAIN clips[j]

IsCatchAll(r) ==
    /\ r.prefix = "Error searching videos: "
    /\ r.checklist = "Please ensure:"

HasBlocks(r) == "blocks" \in DOMAIN r

\* The failures of an invocation, told from its inputs.
ConfigAccessFailed(i) == pc[i] \notin {"idle", "config"} /\ ~ctx[i].has_config

RequestFailed(i) ==
    /\ pc[i] \in {"exit", "done", "raised"}
    /\ PassedPrecondition(i)
    /\ ~GotResponse(i)

BodyNotJson(i) ==
    GotResponse(i) /\ response[i].status = 200 /\ ~response[i].body.is_json

ClipLacksField(i) ==
    /\ GotClips(i)
    /\ \E j \in 1..Len(ClipsOf(i)) :
           j <= 15 /\ ~(ClipFields \subseteq DOMAIN ClipsOf(i)[j])

Failed(i) ==
    ConfigAccessFailed(i) \/ RequestFailed(i) \/ BodyNotJson(i) \/ ClipLacksField(i)

(***************************************************************************)
(* C1: no exception leaves query_videos.  An invocation never ends with an *)
(* exception escaping; whenever it has ended it has returned a string; and *)
(* when the configuration could not be read, the request failed or timed   *)
(* out, the 200 body was not JSON or one of the first 15 clips lacked a    *)
(* field, that string is the catch-all message with its checklist and the  *)
(* text of the exception.                                                  *)
(***************************************************************************)
C1_NoExceptionEscapes ==
    \A i \in Invocations :
        /\ pc[i] # "raised"
        /\ pc[i] = "done" => result[i].prefix # ""
        /\ (Terminal(i) /\ Failed(i)) =>
               /\ pc[i] = "done"
               /\ IsCatchAll(result[i])
               /\ pending[i].kind = "raise"
               /\ result[i].exception = pending[i].exc.text
        /\ (Terminal(i) /\ BodyNotJson(i)) => pending[i].exc.type = "JSONDecodeError"
        /\ (Terminal(i) /\ ClipLacksField(i)) =>
               \E f \in ClipFields : result[i].exception = "'" \o f \o "'"

C1_Witness ==
    \E i, j \in Invocations :
        /\ pc[i] = "done" /\ ClipLacksField(i) /\ IsCatchAll(result[i])
        /\ result[i].exception = "'description'"
        /\ pc[j] = "done" /\ RequestFailed(j) /\ IsCatchAll(result[j])
        /\ pending[j].exc.type = "ReadTimeout"

(***************************************************************************)
(* C2: with an empty user_id in the session configuration the invocation   *)
(* returns the string "Error: User ID is required in configuration" right  *)
(* after the check, opens no HTTP client and sends no request at any       *)
(* point; no request ever carries an empty user_id.                        *)
(***************************************************************************)
C2_EmptyUserIdNoRequest ==
    /\ \A i \in Invocations :
           (pc[i] \notin {"idle", "config"} /\ ctx[i].has_config
                /\ ctx[i].user_id = "") =>
               /\ pc[i] = "done"
               /\ result[i].prefix = "Error: User ID is required in configuration"
               /\ client[i] = 0
               /\ \A c \in 1..Len(clients) : clients[c].owner # i
               /\ PostsBy(i) = 0
    /\ \A r \in AllRequests : r.json.user_id # ""

C2_Witness ==
    \E i, j \in Invocations :
        /\ pc[i] = "done" /\ ctx[i].has_config /\ ctx[i].user_id = ""
        /\ result[i] = ConfigError
        /\ pc[j] = "done" /\ PostsBy(j) = 1

(***************************************************************************)
(* C3, as stated: the top_k of every request lies in 1..15, whatever       *)
(* max_results was.                                                        *)
(***************************************************************************)
C3_TopKInRange ==
    \A r \in AllRequests : r.json.top_k >= 1 /\ r.json.top_k <= 15

(***************************************************************************)
(* C3, amended: the top_k of every request is at most 15; it lies in 1..15 *)
(* exactly when max_results is at least 1, and a zero or negative          *)
(* max_results is transmitted unchanged.                                   *)
(***************************************************************************)
C3_TopKUpperBoundOnly ==
    \A r \in AllRequests :
        LET m == args[r.from].max_results
            k == r.json.top_k
        IN  /\ k <= 15
            /\ (k >= 1) <=> (m >= 1)
            /\ m <= 0 => k = m

C3_Witness ==
    \E r \in AllRequests :
        args[r.from].max_results = 0 /\ r.json.top_k = 0

(***************************************************************************)
(* C4: for max_results above 15 the top_k sent is 15, and for max_results  *)
(* from 1 to 15 it is max_results (10, the default, is sent as 10).        *)
(***************************************************************************)
C4_TopKClamp ==
    \A r \in AllRequests :
        LET m == args[r.from].max_results
        IN  /\ m > 15 => r.json.top_k = 15
            /\ (1 <= m /\ m <= 15) => r.json.top_k = m

C4_Witness ==
    \E r, t \in AllRequests :
        /\ args[r.from].max_results = 16 /\ r.json.top_k = 15
        /\ args[t.from].max_results = 10 /\ t.json.top_k = 10

\* Invocation i has returned on a 200 response with a list of n well-formed
\* clips.
ReturnedOnClips(i) ==
    pc[i] = "done" /\ GotClips(i) /\ AllWellFormed(ClipsOf(i))

\* The block b shows the clip c: its description and URL, its score
\* rounded to thousandths, and the leading characters of its expiry and
\* identifiers.
BuiltFrom(b, c) ==
    /\ b.description = c.description
    /\ b.url = c.url
    /\ 10 * b.score - 5 <= c.score /\ c.score < 10 * b.score + 5
    /\ Len(b.expires) <= Len(c.expires_at)
    /\ \A k \in 1..Len(b.expires) : b.expires[k] = c.expires_at[k]
    /\ \A k \in 1..Min(8, Len(c.video_id)) : b.video_id[k] = c.video_id[k]
    /\ \A k \in 1..Min(8, Len(c.chunk_id)) : b.chunk_id[k] = c.chunk_id[k]

(***************************************************************************)
(* C5: on a 200 response with n well-formed clips the output holds exactly *)
(* min(n, 15) result blocks, the block of rank j built from the j-th clip  *)
(* received; with n = 0 the output is the "no results" string naming the   *)
(* query, with no block.                                                   *)
(***************************************************************************)
C5_BlocksFollowClips ==
    \A i \in Invocations :
        ReturnedOnClips(i) =>
            LET clips == ClipsOf(i)
                n == Len(clips)
            IN  IF n = 0
                THEN /\ result[i].prefix = "No video clips found for query: "
                     /\ result[i].query = args[i].query
                     /\ ~HasBlocks(result[i])
                ELSE /\ HasBlocks(result[i])
                     /\ Len(result[i].blocks) = Min(n, 15)
                     /\ \A j \in 1..Len(result[i].blocks) :
                            /\ result[i].blocks[j].rank = j
                            /\ BuiltFrom(result[i].blocks[j], clips[j])

\* One invocation returned 15 blocks for 17 clips, not in score order, and
\* another the "no results" string for an empty list.
C5_Witness ==
    \E i, h \in Invocations :
        /\ ReturnedOnClips(i) /\ Len(ClipsOf(i)) = 17
        /\ HasBlocks(result[i]) /\ Len(result[i].blocks) = 15
        /\ \E j \in 1..14 : result[i].blocks[j].score < result[i].blocks[j + 1].score
        /\ ReturnedOnClips(h) /\ Len(ClipsOf(h)) = 0
        /\ result[h].prefix = "No video clips found for query: "

\* The display the claim gives an identifier.
ClaimedIdDisplay(id) == IF Len(id) >= 8 THEN SubSeq(id, 1, 8) \o Ellipsis ELSE id

(***************************************************************************)
(* C6, as stated: in every result block an identifier of 8 or more         *)
(* characters is shown as its first 8 characters and an ellipsis, and a    *)
(* shorter one as it is, with no ellipsis.                                 *)
(***************************************************************************)
C6_IdDisplay ==
    \A i \in Invocations :
        (ReturnedOnClips(i) /\ HasBlocks(result[i])) =>
            \A j \in 1..Len(result[i].blocks) :
                /\ result[i].blocks[j].video_id = ClaimedIdDisplay(ClipsOf(i)[j].video_id)
                /\ result[i].blocks[j].chunk_id = ClaimedIdDisplay(ClipsOf(i)[j].chunk_id)

(***************************************************************************)
(* C7: an invocation that passed the user-id check sends exactly one POST: *)
(* none before it reaches the request, one from then on, whatever the      *)
(* outcome of the request, and never a second.                             *)
(***************************************************************************)
C7_ExactlyOnePost ==
    \A i \in Invocations :
        /\ PostsBy(i) <= 1
        /\ \A ck \in PostsOf(i) : clients[ck[1]].requests[ck[2]].method = "POST"
        /\ PassedPrecondition(i) =>
               IF pc[i] \in {"open", "post"} THEN PostsBy(i) = 0
               ELSE /\ pc[i] \in {"await", "exit", "done"}
                    /\ PostsBy(i) = 1

\* Two invocations have ended, one on a timeout and one on a clip lacking a
\* field, each having sent one request.
C7_Witness ==
    \E i, j \in Invocations :
        /\ pc[i] = "done" /\ RequestFailed(i) /\ pending[i].exc.type = "ReadTimeout"
        /\ PostsBy(i) = 1
        /\ pc[j] = "done" /\ ClipLacksField(j) /\ PostsBy(j) = 1

(***************************************************************************)
(* C8: on a response whose status is not 200 (201 and 204 included) the    *)
(* string returned holds the status code and the raw body; the body is not *)
(* parsed as JSON and no clip is formatted.                                *)
(***************************************************************************)
C8_Non200IsStatusError ==
    \A i \in Invocations :
        (GotResponse(i) /\ response[i].status # 200) =>
            /\ pending[i].kind = "return"
            /\ ~pending[i].parsed
            /\ pending[i].formatted = 0
            /\ pending[i].value.prefix = "Error querying videos: "
            /\ pending[i].value.status = response[i].status
            /\ pending[i].value.body = response[i].body
            /\ ~HasBlocks(pending[i].value)
            /\ pc[i] = "done" => result[i] = pending[i].value

\* A 201 response with a JSON list of clips was answered by the status
\* error, and a 503 with a text body too.
C8_Witness ==
    \E i, j \in Invocations :
        /\ pc[i] = "done" /\ GotResponse(i) /\ response[i].status = 201
        /\ response[i].body.is_json
        /\ result[i].prefix = "Error querying videos: " /\ result[i].status = 201
        /\ pc[j] = "done" /\ GotResponse(j) /\ response[j].status = 503
        /\ result[j].body = TextBody("service unavailable")

(***************************************************************************)
(* C9: each invocation opens at most one client, its own, which is open    *)
(* exactly from the moment it is entered to the moment the invocation      *)
(* leaves the async with statement; every request goes through the         *)
(* sender's own client while it is open; and once an invocation has ended, *)
(* by a return or by an exception turned into the catch-all string, its    *)
(* client is closed.                                                       *)
(***************************************************************************)
C9_ClientScopedToInvocation ==
    /\ \A c \in 1..Len(clients) :
           /\ client[clients[c].owner] = c
           /\ clients[c].open <=> pc[clients[c].owner] \in {"post", "await", "exit"}
           /\ \A k \in 1..Len(clients[c].requests) :
                  /\ clients[c].requests[k].from = clients[c].owner
                  /\ clients[c].requests[k].was_open
    /\ \A i \in Invocations :
           /\ client[i] # 0 =>
                  /\ client[i] \in 1..Len(clients)
                  /\ clients[client[i]].owner = i
           /\ (client[i] = 0) <=> (pc[i] \in {"idle", "config", "open"} \/ ~PassedPrecondition(i))
           /\ Terminal(i) => \A c \in 1..Len(clients) :
                                 clients[c].owner = i => ~clients[c].open

\* Both invocations have ended, one by a return and one by a caught
\* exception, with their two clients closed.
C9_Witness ==
    \E i, j \in Invocations :
        /\ pc[i] = "done" /\ pending[i].kind = "return" /\ client[i] # 0
        /\ pc[j] = "done" /\ pending[j].kind = "raise" /\ client[j] # 0
        /\ client[i] # client[j]
        /\ ~clients[client[i]].open /\ ~clients[client[j]].open

(***************************************************************************)
(* C10, as stated: in the summary of a 200 response with well-formed clips *)
(* the count of the header equals the number of result blocks, also when   *)
(* more than 15 clips came.                                                *)
(***************************************************************************)
C10_HeaderCountIsBlockCount ==
    \A i \in Invocations :
        (ReturnedOnClips(i) /\ HasBlocks(result[i])) =>
            result[i].count = Len(result[i].blocks)

====
